---- MODULE Spec2Model ----
(***************************************************************************)
(* Model of get_ml.py, the "poor man's podcatcher": main() reads the       *)
(* sections of config.ini and calls get_feed() once per section; get_feed  *)
(* parses the RSS feed, derives one file name per entry and, for every     *)
(* link of the entry that ends with the configured suffix, downloads the   *)
(* file with curl (download_mp3) and writes ID3 tags (store_meta).         *)
(*                                                                         *)
(* Python strings that the code inspects character by character (titles,   *)
(* hrefs, suffixes, paths, file names) are sequences of one-character      *)
(* strings.  Python dicts (feed result, entry, link, ID3 tags) are         *)
(* functions whose DOMAIN is the set of keys present, so that              *)
(* "'title' in i" is "title" \in DOMAIN i.  An uncaught exception moves    *)
(* pc to "raised" and records its type in exc.                             *)
(***************************************************************************)
EXTENDS Integers, Sequences, FiniteSets, TLC

VARIABLES
    pc,      \* control position: main / sections / get_feed / items / links / returned / raised / exit
    config,  \* parser.sections() with their keys, in file order
    env,     \* the process environment: is ./config.ini there, is curl in $PATH
    sec,     \* index of the next section main looks at
    args,    \* parameters of the running get_feed call: path, url, show_name, suffix
    rss,     \* get_feed's local rss (result of feedparser.parse)
    i,       \* index of the entry the loop "for i in rss['items']" is at
    j,       \* index of the link the loop "for j in li" is at
    name,    \* get_feed's local name
    date,    \* get_feed's local date_id3
    fs,      \* the file system: path -> file, for the files that exist
    web,     \* what the feed parser returns for each url (unchanged during a behaviour)
    clock,   \* the day datetime.now() last reported
    exc,     \* type of the exception that ended the run ("" if none)
    log,     \* messages written with logging.warning / logging.error
    run,     \* number of get_feed calls made so far
    fs0,     \* history: the file system when the running get_feed call started
    hist,    \* history: one record per matching link examined (line 128), all calls
    calls    \* history: the get_feed calls main made: section index and suffix

vars == <<pc, config, env, sec, args, rss, i, j, name, date, fs, web, clock,
          exc, log, run, fs0, hist, calls>>

----------------------------------------------------------------------------
(* Bounds of the model *)

\* longest feed (number of entries in rss['items'])
MaxItems == 2
\* how many times get_feed is called in a row on the same source
MaxRuns == 2
\* last day the clock can reach (days are counted from 1)
MaxDay == 2
\* longest configuration (number of sections of config.ini)
MaxSections == 2
\* most files the download directory holds before the first run
MaxOld == 1

----------------------------------------------------------------------------
(* Strings *)

\* str.replace(old, new) for one-character old and new
Replace(s, old, new) == [k \in 1..Len(s) |-> IF s[k] = old THEN new ELSE s[k]]

\* str.endswith(suffix)
EndsWith(s, suffix) ==
    /\ Len(suffix) <= Len(s)
    /\ SubSeq(s, Len(s) - Len(suffix) + 1, Len(s)) = suffix

Digit == <<"0", "1", "2", "3", "4", "5", "6", "7", "8", "9">>

\* a number zero-padded to two digits (%m, %d)
Pad2(n) == <<Digit[((n \div 10) % 10) + 1], Digit[(n % 10) + 1]>>

\* a number zero-padded to four digits (%Y)
Pad4(n) == Pad2(n \div 100) \o Pad2(n % 100)

----------------------------------------------------------------------------
(* Dates *)

\* The fields strptime's directives accept, with the value each stands for.
\* A published string is the sequence of its blank-separated fields.
Weekdays == {"Mon,", "Tue,", "Wed,", "Thu,", "Fri,", "Sat,", "Sun,"}
DayOf == ("01" :> 1) @@ ("02" :> 2) @@ ("15" :> 15) @@ ("31" :> 31)
MonthOf == ("Jan" :> 1) @@ ("Feb" :> 2) @@ ("Dec" :> 12)
YearOf == ("2019" :> 2019) @@ ("2024" :> 2024)
Times == {"10:00:00", "23:59:59"}
Offsets == {"+0000", "-0500", "+01:00", "Z"}

DaysIn(m) == IF m = 2 THEN 29 ELSE 31

\* does strptime(date_parm, '%a, %d %b %Y %H:%M:%S %z') succeed
Parsable(date_parm) ==
    /\ Len(date_parm) = 6
    /\ date_parm[1] \in Weekdays
    /\ date_parm[2] \in DOMAIN DayOf
    /\ date_parm[3] \in DOMAIN MonthOf
    /\ date_parm[4] \in DOMAIN YearOf
    /\ date_parm[5] \in Times
    /\ date_parm[6] \in Offsets
    /\ DayOf[date_parm[2]] <= DaysIn(MonthOf[date_parm[3]])

\* get_date: the datetime strptime builds (only its calendar date is used)
get_date(date_parm) ==
    [year |-> YearOf[date_parm[4]], month |-> MonthOf[date_parm[3]],
     day |-> DayOf[date_parm[2]]]

\* datetime.datetime.now() on day c of the clock
Now(c) == [year |-> 2026, month |-> 11, day |-> c]

\* date.strftime('%Y-%m-%d')
strftime(d) == Pad4(d.year) \o <<"-">> \o Pad2(d.month) \o <<"-">> \o Pad2(d.day)

----------------------------------------------------------------------------
(* Inputs: what the configuration, the feed parser, curl and mutagen can hand
   to the program *)

Mp3 == <<".", "m", "p", "3">>

\* the suffix main falls back to when the filename key is empty
StreamMp3 == <<"s", "t", "r", "e", "a", "m">> \o Mp3

\* the download directory and the feed url of a section
Dir == <<"/", "d">>
Url == <<"u">>

\* a directory that does not exist
NoDir == <<"/", "x">>

\* the name of the k-th section (show_name): "ML01", "ML02", ...
SectionName(k) == <<"M", "L">> \o Pad2(k)

\* the sections a config.ini can hold: the path is a writable directory or
\* not, the filename key is empty or a suffix
Sections(k) ==
    {[name |-> SectionName(k), path |-> d, url |-> Url, filename |-> sfx] :
        d \in {Dir, NoDir}, sfx \in {<<>>, Mp3}}

Configs == UNION {{c \in [1..n -> UNION {Sections(k) : k \in 1..n}] :
                     \A k \in 1..n : c[k] \in Sections(k)} : n \in 0..MaxSections}

\* entry titles: "E/p 1"
Titles == {<<"E", "/", "p", " ", "1">>}

\* published strings: one that matches the format and one with a zone name
\* ("GMT" is not matched by %z)
PubJan01 == <<"Mon,", "01", "Jan", "2024", "10:00:00", "+0000">>
PubGMT == <<"Mon,", "01", "Jan", "2024", "10:00:00", "GMT">>
Pubs == {PubJan01, PubGMT}

\* links: one without href, one to another file type, and two whose href
\* ends with both suffixes
LinkStream == [href |-> <<"u", "/">> \o StreamMp3]
LinkMirror == [href |-> <<"v", "/">> \o StreamMp3]
LinkOgg == [href |-> <<"u", "/", "a", ".", "o", "g", "g">>]
LinkNoHref == <<>>
LinkLists == {<<LinkNoHref, LinkOgg, LinkStream, LinkMirror>>}

\* a dict with the key present for each value of S, and with the key absent
Optional(key, S) == {<<>>} \cup {(key :> v) : v \in S}

\* feed entries: title, published and links are each present or absent
Entries ==
    {t @@ p @@ l : t \in Optional("title", Titles),
                   p \in Optional("published", Pubs),
                   l \in Optional("links", LinkLists)}

ItemLists == UNION {[1..n -> Entries] : n \in 0..MaxItems}

\* results of feedparser.parse: a parse error (with or without an HTTP
\* status), a non-200 answer, or a feed
Feeds ==
    {[bozo_exception |-> "SAXParseException", status |-> 200, items |-> <<>>],
     [bozo_exception |-> "URLError", items |-> <<>>],
     [status |-> 404, items |-> <<>>]}
    \cup {[status |-> 200, items |-> l] : l \in ItemLists}

\* what "curl -Lso file_name url" run by subprocess.run can do: raises is the
\* exception subprocess.run ends with ("" if it returns), returncode is
\* curl's exit code, wrote is what curl put at file_name ("" if it wrote
\* nothing and left the path as it was)
CurlOutcomes ==
    {[raises |-> "", returncode |-> 0, wrote |-> "body"]}
    \cup {[raises |-> "", returncode |-> c, wrote |-> w] :
            c \in {6, 18}, w \in {"", "partial"}}
    \cup {[raises |-> "TimeoutExpired", wrote |-> w] : w \in {"", "partial"}}
    \cup {[raises |-> "OSError", wrote |-> ""]}

\* what audio.save can do
SaveOutcomes == {"ok", "MutagenError"}

\* files: data is the audio content ("" if none), tag the ID3 frames
\* (<<>> if the file has no ID3 header)
EmptyFile == [data |-> "", tag |-> <<>>]
OldFile == [data |-> "old", tag |-> [title |-> <<"o">>, date |-> <<"d">>]]

----------------------------------------------------------------------------
(* The file system *)

\* os.path.getsize of a file: bytes of audio data plus bytes of the ID3 header
Size(file) ==
    (CASE file.data = "" -> 0
       [] file.data = "partial" -> 1
       [] OTHER -> 2)
    + (IF file.tag = <<>> THEN 0 ELSE 1)

\* the file system f with file at path p (created or overwritten)
Put(f, p, file) == [q \in DOMAIN f \cup {p} |-> IF q = p THEN file ELSE f[q]]

\* the file system f without path p
Remove(f, p) == [q \in DOMAIN f \ {p} |-> f[q]]

\* check_presence(file_name) in file system f
check_presence(f, file_name) == file_name \in DOMAIN f

\* line 128 without the size test: only a missing file is downloaded
NeedsDownload_NoSizeTest(f, file_name) == ~check_presence(f, file_name)

\* line 128 with the size test turned round: a file of nonzero size is
\* downloaded again
NeedsDownload_SizeTestInverted(f, file_name) ==
    \/ ~check_presence(f, file_name)
    \/ Size(f[file_name]) # 0

\* the condition of line 128: the file is downloaded if it is not there or empty
NeedsDownload(f, file_name) ==
    \/ ~check_presence(f, file_name)
    \/ Size(f[file_name]) = 0

----------------------------------------------------------------------------
(* download_mp3 and store_meta *)

\* the file system after curl ran with outcome o on file_name
AfterCurl(f, file_name, o) ==
    IF o.wrote = "" THEN f ELSE Put(f, file_name, [data |-> o.wrote, tag |-> <<>>])

\* download_mp3(file_name, url) when curl's outcome is o: the exception it
\* raises ("" if none), the value it returns and what it logs.  When
\* subprocess.run raises, the handler logs and assigns "sucess", and the read of
\* proc.returncode that follows finds proc unbound.
download_mp3(o) ==
    IF o.raises # ""
    THEN [exc |-> "UnboundLocalError", success |-> FALSE,
          log |-> {"error: Could not download"}]
    ELSE IF o.returncode # 0
    THEN [exc |-> "", success |-> FALSE, log |-> {"error: curl returned exit code"}]
    ELSE [exc |-> "", success |-> TRUE, log |-> {}]

\* the tags store_meta starts from: the file's own if it has an ID3 header,
\* default (empty) tags if reading them fails or the file is not there
LoadTags(f, target) ==
    IF check_presence(f, target) /\ f[target].tag # <<>> THEN f[target].tag ELSE <<>>

\* store_meta(target, entry, date) when audio.save's outcome is sv: the
\* exception it raises ("" if none), the file system it leaves and what it
\* logs.  entry['title'] raises KeyError when the entry has no title; the
\* handler "except MutagenError" names a class the module never imported, so a
\* failing save ends in NameError instead of the log entry.
store_meta(f, target, entry, d, sv) ==
    LET logRead == IF check_presence(f, target) /\ f[target].tag = <<>>
                   THEN {"warning: Could not extract ID3"} ELSE {}
    IN  IF "title" \notin DOMAIN entry
        THEN [exc |-> "KeyError", fs |-> f, log |-> logRead]
        ELSE IF sv # "ok"
        THEN [exc |-> "NameError", fs |-> f, log |-> logRead]
        ELSE [exc |-> "", log |-> logRead,
              fs |-> Put(f, target,
                         [data |-> IF check_presence(f, target)
                                   THEN f[target].data ELSE "",
                          tag |-> [title |-> entry.title, date |-> d]
                                  @@ LoadTags(f, target)])]

\* os.unlink(file_name): the exception it raises and the file system it leaves
unlink(f, file_name) ==
    IF check_presence(f, file_name)
    THEN [exc |-> "", fs |-> Remove(f, file_name)]
    ELSE [exc |-> "FileNotFoundError", fs |-> f]

----------------------------------------------------------------------------
(* get_feed *)

\* lines 107-110: the entry's title with ' ' -> '.' and '/' -> '-', or show_name
EntryName(entry, show_name) ==
    IF "title" \in DOMAIN entry
    THEN Replace(Replace(entry.title, " ", "."), "/", "-")
    ELSE show_name

\* lines 124-125: name with a '.' appended unless it ends with one
WithDot(n) == IF n[Len(n)] # "." THEN Append(n, ".") ELSE n

\* line 127
FileName(path, n, date_id3) == path \o <<"/">> \o n \o date_id3 \o Mp3

\* lines 121-122: the link has an href and it ends with the suffix
Matches(link, suffix) == "href" \in DOMAIN link /\ EndsWith(link.href, suffix)

\* the links the loop of line 120 runs over (none without the 'links' key)
LinksOf(entry) == IF "links" \in DOMAIN entry THEN entry.links ELSE <<>>

\* how the file at file_name looks to line 128
PreState(f, file_name) ==
    IF ~check_presence(f, file_name) THEN "absent"
    ELSE IF Size(f[file_name]) = 0 THEN "empty" ELSE "nonzero"

\* lines 128-139 for one matching link: what happens to file_name when curl's
\* outcome is o and audio.save's is sv
ProcessLink(f, file_name, entry, date_id3, o, sv) ==
    IF ~NeedsDownload(f, file_name)
    THEN [exc |-> "", fs |-> f, log |-> {}, fetch |-> FALSE, curl |-> "-",
          tag |-> "-", unlink |-> "-"]
    ELSE LET dl == download_mp3(o)
             f1 == AfterCurl(f, file_name, o)
         IN  IF dl.exc # ""
             THEN [exc |-> dl.exc, fs |-> f1, log |-> dl.log, fetch |-> TRUE,
                   curl |-> "raised", tag |-> "-", unlink |-> "-"]
             ELSE IF dl.success
             THEN LET sm == store_meta(f1, file_name, entry, date_id3, sv)
                  IN  [exc |-> sm.exc, fs |-> sm.fs, log |-> dl.log \cup sm.log,
                       fetch |-> TRUE, curl |-> "ok",
                       tag |-> IF sm.exc = "" THEN "ok" ELSE sm.exc, unlink |-> "-"]
             ELSE LET ul == unlink(f1, file_name)
                  IN  [exc |-> ul.exc, fs |-> ul.fs,
                       log |-> dl.log \cup {"warning: Error ocurred during download"},
                       fetch |-> TRUE, curl |-> "failed", tag |-> "-",
                       unlink |-> IF ul.exc = "" THEN "ok" ELSE ul.exc]

\* get_feed is entered with the given parameters: its locals are unset, the
\* history of the call starts
Enter(a) ==
    /\ pc' = "get_feed"
    /\ args' = a
    /\ rss' = <<>>
    /\ i' = 0
    /\ j' = 0
    /\ name' = <<>>
    /\ date' = <<>>
    /\ run' = run + 1
    /\ fs0' = fs

\* an exception of type e leaves get_feed; nothing up to and including
\* main catches it
Raise(e) == pc' = "raised" /\ exc' = e

\* lines 98-104: parse the feed, then check for a parse error and the status
GetFeedParse ==
    /\ pc = "get_feed"
    /\ rss' = web[args.url]
    /\ IF "bozo_exception" \in DOMAIN rss'
       THEN Raise("NameError") /\ i' = i
       ELSE IF rss'.status = 200
       THEN pc' = "items" /\ i' = 1 /\ exc' = exc
       ELSE pc' = "returned" /\ i' = i /\ exc' = exc
    /\ UNCHANGED <<config, env, sec, args, j, name, date, fs, web, clock, log,
                   run, fs0, hist, calls>>

\* lines 106-116: the next entry's name and date, or the end of the loop
ItemStep ==
    /\ pc = "items"
    /\ IF i > Len(rss.items)
       THEN /\ pc' = "returned"
            /\ UNCHANGED <<name, date, j, clock, exc>>
       ELSE LET entry == rss.items[i]
            IN  /\ name' = EntryName(entry, args.show_name)
                /\ IF "published" \in DOMAIN entry
                   THEN IF Parsable(entry.published)
                        THEN /\ date' = strftime(get_date(entry.published))
                             /\ pc' = "links" /\ j' = 1
                             /\ UNCHANGED <<clock, exc>>
                        ELSE /\ Raise("ValueError")
                             /\ UNCHANGED <<date, j, clock>>
                   ELSE \E c \in clock..MaxDay :
                            /\ clock' = c
                            /\ date' = strftime(Now(c))
                            /\ pc' = "links" /\ j' = 1
                            /\ exc' = exc
    /\ UNCHANGED <<config, env, sec, args, rss, i, fs, web, log, run, fs0,
                   hist, calls>>

\* lines 117-139: the next link of the entry, or the end of the inner loop.
\* name[-1] raises IndexError on an empty name (an entry whose title is the
\* empty string); Titles holds no such title, so that branch is not taken here.
LinkStep ==
    /\ pc = "links"
    /\ LET entry == rss.items[i]
           li == LinksOf(entry)
       IN  IF j > Len(li)
           THEN /\ pc' = "items" /\ i' = i + 1
                /\ UNCHANGED <<j, name, fs, exc, log, hist>>
           ELSE IF ~Matches(li[j], args.suffix)
           THEN /\ j' = j + 1
                /\ UNCHANGED <<pc, i, name, fs, exc, log, hist>>
           ELSE IF name = <<>>
           THEN /\ Raise("IndexError")
                /\ UNCHANGED <<i, j, name, fs, log, hist>>
           ELSE \E o \in CurlOutcomes, sv \in SaveOutcomes :
                LET file_name == FileName(args.path, WithDot(name), date)
                    r == ProcessLink(fs, file_name, entry, date, o, sv)
                IN  /\ name' = WithDot(name)
                    /\ fs' = r.fs
                    /\ log' = log \cup r.log
                    /\ hist' = Append(hist,
                           [run |-> run, i |-> i, j |-> j, path |-> file_name,
                            pre |-> PreState(fs, file_name), fetch |-> r.fetch,
                            curl |-> r.curl, tag |-> r.tag, unlink |-> r.unlink])
                    /\ IF r.exc # ""
                       THEN Raise(r.exc) /\ j' = j
                       ELSE pc' = pc /\ exc' = exc /\ j' = j + 1
                    /\ i' = i
    /\ UNCHANGED <<config, env, sec, args, rss, date, web, clock, run, fs0, calls>>

\* the same source is synced again (the program is run periodically)
Resync ==
    /\ pc \in {"returned", "raised"}
    /\ run < MaxRuns
    /\ Enter(args)
    /\ exc' = ""
    /\ log' = {}
    /\ UNCHANGED <<config, env, sec, fs, web, clock, hist, calls>>

----------------------------------------------------------------------------
(* Specification of the sync of one source: get_feed called on a directory
   that may hold files of earlier runs *)

\* the dates an earlier run (on day c at the latest) gave the entry's file
EarlierDates(entry, c) ==
    IF "published" \notin DOMAIN entry THEN {strftime(Now(d)) : d \in 1..c}
    ELSE IF Parsable(entry.published) THEN {strftime(get_date(entry.published))}
    ELSE {}

\* the file names earlier runs of get_feed derived from feed for the parameters a
TargetPaths(feed, a) ==
    UNION {{FileName(a.path, WithDot(EntryName(feed.items[k], a.show_name)), d) :
                d \in EarlierDates(feed.items[k], 1)} : k \in 1..Len(feed.items)}

\* the file systems the call can start in: some of the target paths hold an
\* empty file or a file of an earlier download
InitialFS(paths) ==
    UNION {[P -> {EmptyFile, OldFile}] : P \in {Q \in SUBSET paths : Cardinality(Q) <= MaxOld}}

SyncArgs ==
    {[path |-> Dir, url |-> Url, show_name |-> SectionName(1), suffix |-> sfx] :
        sfx \in {Mp3}}

InitSync ==
    /\ pc = "get_feed"
    /\ config = <<>>
    /\ env = [config_ini |-> TRUE, curl |-> TRUE]
    /\ sec = 0
    /\ args \in SyncArgs
    /\ rss = <<>>
    /\ i = 0
    /\ j = 0
    /\ name = <<>>
    /\ date = <<>>
    /\ web \in [{Url} -> Feeds]
    /\ fs \in InitialFS(TargetPaths(web[Url], args))
    /\ clock = 1
    /\ exc = ""
    /\ log = {}
    /\ run = 1
    /\ fs0 = fs
    /\ hist = <<>>
    /\ calls = <<>>

Init == InitSync

Next == GetFeedParse \/ ItemStep \/ LinkStep

Spec == Init /\ [][Next]_vars

\* the sync of one source, repeated
NextRepeat == GetFeedParse \/ ItemStep \/ LinkStep \/ Resync

SpecRepeat == Init /\ [][NextRepeat]_vars

----------------------------------------------------------------------------
(* main *)

\* os.path.isdir(path) and os.access(path, os.W_OK)
Writable(path) == path = Dir

\* lines 143-157 and 173-174: without config.ini or without curl main ends
\* before it looks at any section
MainStart ==
    /\ pc = "main"
    /\ IF ~env.config_ini
       THEN /\ pc' = "exit"
            /\ log' = log \cup {"error: No config.ini in current directory"}
            /\ sec' = sec
       ELSE IF ~env.curl
       THEN /\ pc' = "exit"
            /\ log' = log \cup {"error: No curl in $PATH, aborting"}
            /\ sec' = sec
       ELSE /\ pc' = "sections"
            /\ sec' = 1
            /\ log' = log
    /\ UNCHANGED <<config, env, args, rss, i, j, name, date, fs, web, clock,
                   exc, run, fs0, hist, calls>>

\* lines 159-172: the loop over the sections.  With an empty filename key
\* the body only sets file_name: path, the directory check and the call of
\* get_feed all sit in the else branch of line 164.
SectionStep ==
    /\ pc \in {"sections", "returned"}
    /\ IF sec > Len(config)
       THEN /\ pc' = "exit"
            /\ UNCHANGED <<sec, args, rss, i, j, name, date, run, fs0, log, calls>>
       ELSE LET s == config[sec]
            IN  /\ sec' = sec + 1
                /\ IF Len(s.filename) = 0
                   THEN /\ pc' = "sections"
                        /\ UNCHANGED <<args, rss, i, j, name, date, run, fs0,
                                       log, calls>>
                   ELSE IF Writable(s.path)
                   THEN /\ Enter([path |-> s.path, url |-> s.url,
                                  show_name |-> s.name, suffix |-> s.filename])
                        /\ calls' = Append(calls,
                                           [sec |-> sec, suffix |-> s.filename])
                        /\ log' = log
                   ELSE /\ pc' = "sections"
                        /\ log' = log \cup {"warning: not a path or not writable"}
                        /\ UNCHANGED <<args, rss, i, j, name, date, run, fs0,
                                       calls>>
    /\ UNCHANGED <<config, env, fs, web, clock, exc, hist>>

\* main is started in a directory with or without config.ini, with or
\* without curl installed; the download directory may hold files of earlier runs
InitMain ==
    /\ pc = "main"
    /\ env \in [config_ini : BOOLEAN, curl : BOOLEAN]
    /\ config \in IF env.config_ini THEN Configs ELSE {<<>>}
    /\ sec = 0
    /\ args = <<>>
    /\ rss = <<>>
    /\ i = 0
    /\ j = 0
    /\ name = <<>>
    /\ date = <<>>
    /\ web \in [{Url} -> Feeds]
    /\ fs \in InitialFS(UNION {TargetPaths(web[Url],
                                  [path |-> Dir, show_name |-> SectionName(k)]) :
                                  k \in 1..Len(config)})
    /\ clock = 1
    /\ exc = ""
    /\ log = {}
    /\ run = 0
    /\ fs0 = fs
    /\ hist = <<>>
    /\ calls = <<>>

NextMain == MainStart \/ SectionStep \/ GetFeedParse \/ ItemStep \/ LinkStep

SpecMain == InitMain /\ [][NextMain]_vars

----------------------------------------------------------------------------
(* Properties *)

\* the running get_feed call is over: it returned or an exception left it
Ended == pc \in {"returned", "raised"}

\* the records of the running call
ThisRun == {k \in DOMAIN hist : hist[k].run = run}

\* the fetch or the tag-writing of the link of record r failed
Failure(r) == r.curl \in {"failed", "raised"} \/ r.tag \in {"KeyError", "NameError"}

\* every published string of the feed matches the format
DatesParsable(feed) ==
    \A k \in 1..Len(feed.items) :
        "published" \in DOMAIN feed.items[k] => Parsable(feed.items[k].published)

\* the positions <<entry, link>> of the links of feed that end with suffix
MatchingPositions(feed, suffix) ==
    UNION {{<<k, l>> : l \in {n \in 1..Len(LinksOf(feed.items[k])) :
                                Matches(LinksOf(feed.items[k])[n], suffix)}} :
           k \in 1..Len(feed.items)}

\* C1: get_feed never raises: whatever the feed result, the outcome of curl
\* and the outcome of the tag-writing, a call on a feed whose published dates
\* are parsable or absent does not end in an uncaught exception.
GetFeedNeverRaises == DatesParsable(web[Url]) => pc # "raised"

\* C2: when the call is over, no file is left at a target path whose last
\* fetch failed (timeout, nonzero exit code or transport error).
NoFileAfterFailedFetch ==
    Ended =>
        \A k \in ThisRun :
            (/\ hist[k].curl \in {"failed", "raised"}
             /\ \A m \in ThisRun : m > k /\ hist[m].path = hist[k].path
                                     => ~hist[m].fetch)
            => hist[k].path \notin DOMAIN fs

\* C3: no early termination.  When a get_feed call on a feed with status 200
\* is over, every matching link after a link whose fetch or tag-writing failed
\* has been examined, and fetched if its file was absent or empty; and when
\* main is over, every section with a suffix and a writable directory has been
\* synced, whatever failed in the sections before it.
NoEarlyTermination ==
    /\ Ended =>
        \A k \in ThisRun : Failure(hist[k]) =>
            \A pos \in MatchingPositions(rss, args.suffix) :
                (pos[1] > hist[k].i \/ (pos[1] = hist[k].i /\ pos[2] > hist[k].j))
                => \E m \in ThisRun :
                       /\ <<hist[m].i, hist[m].j>> = pos
                       /\ hist[m].pre \in {"absent", "empty"} => hist[m].fetch
    /\ pc \in {"exit", "raised"} /\ env.config_ini /\ env.curl =>
        \A n \in 1..Len(config) :
            Len(config[n].filename) # 0 /\ Writable(config[n].path)
            => \E c \in 1..Len(calls) : calls[c].sec = n

\* C4: writing metadata never fails the sync: when the tag-writing of a
\* downloaded file fails, the failure is logged, no exception leaves
\* get_feed and the downloaded file stays at its path.
TagFailureSwallowed ==
    \A k \in ThisRun : hist[k].tag \in {"KeyError", "NameError"} =>
        /\ pc # "raised"
        /\ hist[k].path \in DOMAIN fs
        /\ "error: Could not save audio metadata" \in log

\* C5: on a parse error (bozo) the call fetches nothing, leaves every file
\* as it was, logs the error and returns normally.
BozoReturnsNormally ==
    Ended /\ "bozo_exception" \in DOMAIN rss =>
        /\ pc = "returned"
        /\ fs = fs0
        /\ ThisRun = {}
        /\ "error: Caught exception in RSS parse" \in log

\* C6: sync is idempotent on an unchanged feed: when the second of two
\* calls in a row (on the same day) is over and every fetch of the first one
\* succeeded, the second one has fetched nothing and the set of files is the
\* one the first call left.
SecondSyncFetchesNothing ==
    (/\ run = 2 /\ Ended /\ clock = 1
     /\ \A k \in DOMAIN hist : hist[k].run = 1 /\ hist[k].fetch => hist[k].curl = "ok")
    => /\ \A k \in ThisRun : ~hist[k].fetch
       /\ DOMAIN fs = DOMAIN fs0

\* C7: when main is over, every section with an empty filename key and a
\* writable directory has been synced with the suffix "stream.mp3".
EmptyFilenameSyncedWithDefault ==
    pc = "exit" /\ env.config_ini /\ env.curl =>
        \A n \in 1..Len(config) :
            Len(config[n].filename) = 0 /\ Writable(config[n].path)
            => \E c \in 1..Len(calls) :
                   calls[c].sec = n /\ calls[c].suffix = StreamMp3

\* C8: a file of size 0 at the target path is treated as absent: for every
\* matching link whose target is an empty file, as for every one whose target
\* does not exist, the fetch is invoked.
EmptyFileTreatedAsAbsent ==
    \A k \in DOMAIN hist :
        hist[k].pre \in {"empty", "absent"} => hist[k].fetch /\ hist[k].curl # "-"

\* C8 witness: a matching link whose target was an empty file has been fetched
EmptyFileFetched ==
    \E k \in DOMAIN hist :
        /\ hist[k].pre = "empty" /\ hist[k].fetch
        /\ hist[k].path \in DOMAIN fs0 /\ Size(fs0[hist[k].path]) = 0

\* C9: a file of nonzero size that is there when get_feed starts is never
\* touched: it is still there with the same content, and no fetch,
\* tag-writing or unlink was made for its path, whatever happened to the
\* other links and entries.
NonzeroFileUntouched ==
    \A p \in DOMAIN fs0 : Size(fs0[p]) > 0 =>
        /\ p \in DOMAIN fs
        /\ fs[p] = fs0[p]
        /\ \A k \in ThisRun : hist[k].path = p =>
               /\ ~hist[k].fetch
               /\ hist[k].curl = "-" /\ hist[k].tag = "-" /\ hist[k].unlink = "-"

\* C9 witness: the call returned after it skipped a link whose file was there
\* with nonzero size, and after the fetch for another path failed
NonzeroFileSkipped ==
    /\ pc = "returned"
    /\ \E k, m \in ThisRun :
           /\ hist[k].pre = "nonzero" /\ hist[k].path \in DOMAIN fs0
           /\ hist[m].path # hist[k].path /\ hist[m].curl = "failed"

\* C10: the effective date of an entry is the parsed published date when
\* the published string is present and matches the format, and the current
\* local time when it is absent or cannot be parsed; an unparsable string
\* does not end the sync.
EffectiveDate ==
    /\ pc = "links" =>
        LET entry == rss.items[i]
        IN  date = IF "published" \in DOMAIN entry /\ Parsable(entry.published)
                   THEN strftime(get_date(entry.published))
                   ELSE strftime(Now(clock))
    /\ exc # "ValueError"

====
